---- MODULE Spec2Model ----
(***************************************************************************)
(* Recipe Book API: the store (recipes, ingredients, recipe_ingredient),   *)
(* the CRUDRecipe operations of crud.py and the routes of main.py.         *)
(*                                                                         *)
(* Every request runs as one task with a session of its own (get_db).  A   *)
(* task yields only at an await on the store, so each action below is one  *)
(* awaited store call together with the synchronous code around it.        *)
(*                                                                         *)
(* The store is the SQLite file of database.py.  A session's SELECT runs   *)
(* outside a transaction; its first INSERT/UPDATE opens one and takes the  *)
(* database's single write lock, held until COMMIT or ROLLBACK.  Rows a    *)
(* session has flushed but not committed are visible to that session only. *)
(***************************************************************************)
EXTENDS Integers, Sequences, FiniteSets, TLC

\* ------------------------------------------------------------------ bounds
MaxRecipes == 2        \* recipes created, requests one after the other
MaxViews == 2          \* views a recipe reaches
MaxNames == 3          \* length of ingredient_names
MaxPagingRecipes == 3  \* recipes created, in the specification of the listing
MaxConcRecipes == 1    \* recipes stored when a create may still begin, two requests in flight
MaxConcViews == 2      \* views at which a fetch may still begin, two requests in flight
MaxConcNames == 2      \* length of ingredient_names, two requests in flight

\* ------------------------------------------------------- program constants
MaxTitleLen == 100
MinCookingTime == 1
MaxNameLen == 50
HTTP_200_OK == 200
HTTP_201_CREATED == 201
HTTP_404_NOT_FOUND == 404
HTTP_422_UNPROCESSABLE == 422
HTTP_500_INTERNAL_SERVER_ERROR == 500

\* A 51-character ingredient name and a 101-character title.
LongName == "aaaaaaaaaabbbbbbbbbbccccccccccddddddddddeeeeeeeeeef"
LongTitle == "aaaaaaaaaabbbbbbbbbbccccccccccddddddddddeeeeeeeeeeaaaaaaaaaabbbbbbbbbbccccccccccddddddddddeeeeeeeeeef"

Titles == {"soup", LongTitle}

ListsOver(S, n) == UNION {[1..k -> S] : k \in 0..n}

\* The bodies of POST /recipes: every title and cooking time with every list.
Bodies(titles, cooking_times, name_lists) ==
    {[title |-> ti, cooking_time |-> ct, names |-> l] :
        ti \in titles, ct \in cooking_times, l \in name_lists}

\* The requests a specification draws from.
SeqInputs ==
    [bodies |-> Bodies({"soup"}, {1}, ListsOver({"egg", "milk"}, MaxNames)
                                        \cup {<<LongName>>})
                \cup Bodies(Titles, 0..1, {<<"egg">>}),
     skips |-> {0}, limits |-> {1}, max_recipes |-> MaxRecipes, max_views |-> MaxViews,
     history |-> TRUE]

PagingInputs ==
    [bodies |-> Bodies({"soup"}, 0..2, {<<"egg">>}),
     skips |-> 0..1, limits |-> {-1, 0, 1, MaxPagingRecipes},
     max_recipes |-> MaxPagingRecipes, max_views |-> MaxViews, history |-> TRUE]

ConcInputs ==
    [bodies |-> Bodies({"soup"}, {1}, ListsOver({"egg", "milk"}, MaxConcNames)),
     skips |-> {0}, limits |-> {1}, max_recipes |-> MaxConcRecipes,
     max_views |-> MaxConcViews, history |-> FALSE]

None == 0
NoResp == [status |-> 0, body |-> <<>>]
NoReq == [kind |-> "none", skip |-> 0, limit |-> 0, id |-> 0,
          title |-> "", cooking_time |-> 0, names |-> <<>>]

VARIABLES
    recipes,      \* table recipes: row id -> [title, cooking_time, views]
    ingredients,  \* table ingredients: row id -> name
    links,        \* table recipe_ingredient: a sequence of <<recipe_id, ingredient_id>>
    writer,       \* the task holding SQLite's write lock, or None
    task,         \* per request task: pc, request, locals of the handler, response
    fetched       \* per recipe id: completed successful get_recipe calls (history)

vars == <<recipes, ingredients, links, writer, task, fetched>>

Store == <<recipes, ingredients, links>>

\* ----------------------------------------------------------------- helpers
Range(s) == {s[i] : i \in DOMAIN s}

Min(a, b) == IF a < b THEN a ELSE b

Max(a, b) == IF a > b THEN a ELSE b

RECURSIVE Dedup(_)
\* The members of a sequence, each once, in order of first occurrence.
Dedup(s) ==
    IF s = <<>> THEN <<>>
    ELSE LET front == Dedup(SubSeq(s, 1, Len(s) - 1))
             last == s[Len(s)]
         IN IF last \in Range(front) THEN front ELSE Append(front, last)

\* ------------------------------------------------------------ RecipeCreate
\* Request validation of POST /recipes: title max_length=100, cooking_time ge=1;
\* ingredient_names is a plain List[str].
RecipeCreateValid(req) ==
    /\ Len(req.title) <= MaxTitleLen
    /\ req.cooking_time >= MinCookingTime

\* ------------------------------------------------------------- get_recipes
\* OrderBefore without the tie-break on cooking_time.
OrderBefore_ViewsOnly(a, b) == a.views > b.views

\* ORDER BY views DESC, cooking_time ASC: row a sorts strictly before row b.
OrderBefore(a, b) ==
    \/ a.views > b.views
    \/ a.views = b.views /\ a.cooking_time < b.cooking_time

\* The orders the store may return all rows in: rows with equal keys in any order.
Orderings ==
    {p \in [1..Len(recipes) -> 1..Len(recipes)] :
        /\ \A i, j \in 1..Len(recipes) : i # j => p[i] # p[j]
        /\ \A i, j \in 1..Len(recipes) :
              i < j => ~OrderBefore(recipes[p[j]], recipes[p[i]])}

\* OFFSET skip LIMIT limit on SQLite: a negative offset is 0, a negative limit is
\* no limit.
Page(p, skip, limit) ==
    LET off == Max(skip, 0)
        lim == IF limit < 0 THEN Len(p) ELSE limit
    IN SubSeq(p, off + 1, Min(Len(p), off + lim))

\* RecipeListResponse
RecipeListRow(id) ==
    [id |-> id, title |-> recipes[id].title, views |-> recipes[id].views,
     cooking_time |-> recipes[id].cooking_time]

\* -------------------------------------------------------------- the session
\* The ingredients rows a task's session sees: the committed ones and the ones
\* it has flushed itself.
Visible(t) == ingredients \o task[t].pend

\* The lookup reading the committed rows only, blind to the session's own flush.
FindIngredient_CommittedOnly(t, name) ==
    IF \E i \in DOMAIN ingredients : ingredients[i] = name
    THEN CHOOSE i \in DOMAIN ingredients : ingredients[i] = name
    ELSE None

\* select(Ingredient).where(Ingredient.name == name).scalar_one_or_none()
FindIngredient(t, name) ==
    IF \E i \in DOMAIN Visible(t) : Visible(t)[i] = name
    THEN CHOOSE i \in DOMAIN Visible(t) : Visible(t)[i] = name
    ELSE None

\* select(Recipe).where(Recipe.id == recipe_id).scalar_one_or_none()
FindRecipe(id) == IF id \in DOMAIN recipes THEN id ELSE None

\* The ingredients relationship loaded from the store: the Ingredient rows joined
\* through recipe_ingredient, each entity once.
LoadIngredients(rid) ==
    LET mine == SelectSeq(links, LAMBDA l : l[1] = rid)
        ids == Dedup([k \in DOMAIN mine |-> mine[k][2]])
    IN [k \in DOMAIN ids |-> [id |-> ids[k], name |-> ingredients[ids[k]]]]

\* RecipeDetailResponse
RecipeDetail(rid) ==
    [id |-> rid, title |-> recipes[rid].title,
     cooking_time |-> recipes[rid].cooking_time,
     views |-> recipes[rid].views, ingredients |-> LoadIngredients(rid)]

Idle(t) == task[t].pc \in {"idle", "done"}

Fresh == [pc |-> "idle", req |-> NoReq, i |-> 0, ings |-> <<>>, pend |-> <<>>,
          obj |-> 0, resp |-> NoResp, hit |-> FALSE, snap |-> <<>>]

\* A task takes a request; snap is the store as the request found it (history).
Begin(in, req, pc) ==
    [Fresh EXCEPT !.pc = pc, !.req = req, !.snap = IF in.history THEN Store ELSE <<>>]

Finish(rec, status, body) ==
    [rec EXCEPT !.pc = "done", !.resp = [status |-> status, body |-> body],
                !.pend = <<>>]

\* ------------------------------------------------------------------ errors
\* str(e) of the exceptions the store raises.
IntegrityError(name) ==
    [exc |-> "IntegrityError", msg |-> "UNIQUE constraint failed: ingredients.name",
     params |-> name]

OperationalError(msg) == [exc |-> "OperationalError", msg |-> msg, params |-> ""]

\* The except branch of the POST /recipes route: HTTPException(500,
\* detail=f"<prefix>: {str(e)}").
CreateErrorDetail(e) == <<"create_recipe error: ", e>>

\* Closing the session commits what it flushed.
CloseSession_Commit(t) == ingredients \o task[t].pend

\* get_db closes the session of a request that did not commit: its transaction
\* is rolled back, and the committed ingredients table is what it was.
CloseSession(t) == ingredients

Unlock(t) == IF writer = t THEN None ELSE writer

\* create_recipe raised e: the route answers 500 and the session is closed.
Raise(t, e) ==
    /\ task' = [task EXCEPT ![t] = Finish(@, HTTP_500_INTERNAL_SERVER_ERROR,
                                          [detail |-> CreateErrorDetail(e)])]
    /\ ingredients' = CloseSession(t)
    /\ writer' = Unlock(t)
    /\ UNCHANGED <<recipes, links, fetched>>

\* ------------------------------------------------------------- GET /recipes
get_recipes(t, in) ==
    /\ Idle(t)
    /\ \E skip \in in.skips, limit \in in.limits, p \in Orderings :
          LET req == [NoReq EXCEPT !.kind = "list", !.skip = skip, !.limit = limit]
              ids == Page(p, skip, limit)
              rows == [k \in DOMAIN ids |-> RecipeListRow(ids[k])]
          IN task' = [task EXCEPT ![t] = Finish(Begin(in, req, "run"), HTTP_200_OK, rows)]
    /\ UNCHANGED <<recipes, ingredients, links, writer, fetched>>

\* --------------------------------------------------------- GET /ingredients
get_ingredients(t, in) ==
    /\ Idle(t)
    /\ LET req == [NoReq EXCEPT !.kind = "ingredients"]
           rows == [k \in DOMAIN ingredients |-> [id |-> k, name |-> ingredients[k]]]
       IN task' = [task EXCEPT ![t] = Finish(Begin(in, req, "run"), HTTP_200_OK, rows)]
    /\ UNCHANGED <<recipes, ingredients, links, writer, fetched>>

\* -------------------------------------------------------- GET /recipes/{id}
\* The increment counting a view twice.
IncrementViews_Twice(v) == v + 2

\* recipe.views += 1
IncrementViews(v) == v + 1

\* The route without its check for None.
NotFoundResponse_Missing == [status |-> HTTP_200_OK, body |-> [detail |-> "null"]]

\* The route's answer to what crud.get_recipe returned for a missing id.
NotFoundResponse == [status |-> HTTP_404_NOT_FOUND, body |-> [detail |-> "not found"]]

\* The SELECT of get_recipe; a missing id ends the request with 404.
get_recipe_select(t, in) ==
    /\ Idle(t)
    /\ \E id \in 1..(in.max_recipes + 1) :
          LET req == [NoReq EXCEPT !.kind = "get", !.id = id]
              recipe == FindRecipe(id)
          IN /\ recipe # None => recipes[id].views < in.max_views
             /\ task' = [task EXCEPT ![t] =
                   IF recipe = None
                   THEN [Begin(in, req, "done") EXCEPT !.resp = NotFoundResponse]
                   ELSE [Begin(in, req, "g_commit") EXCEPT !.obj = recipes[id].views]]
    /\ UNCHANGED <<recipes, ingredients, links, writer, fetched>>

\* db.commit(): UPDATE recipes SET views = <the value computed in memory>, COMMIT.
get_recipe_commit(t) ==
    /\ task[t].pc = "g_commit"
    /\ writer = None
    /\ recipes' = [recipes EXCEPT ![task[t].req.id].views = IncrementViews(task[t].obj)]
    /\ task' = [task EXCEPT ![t].pc = "g_refresh"]
    /\ UNCHANGED <<ingredients, links, writer, fetched>>

\* db.refresh(recipe) and the route's 200.
get_recipe_refresh(t) ==
    /\ task[t].pc = "g_refresh"
    /\ task' = [task EXCEPT ![t] = Finish(@, HTTP_200_OK, RecipeDetail(task[t].req.id))]
    /\ fetched' = [fetched EXCEPT ![task[t].req.id] = @ + 1]
    /\ UNCHANGED <<recipes, ingredients, links, writer>>

\* ----------------------------------------------------------- POST /recipes
\* After one ingredient name: the next one, or the recipe itself.
NextName(rec) ==
    [rec EXCEPT !.i = @ + 1,
                !.pc = IF rec.i + 1 > Len(rec.req.names) THEN "c_commit" ELSE "c_lookup"]

\* The route is entered: the body is validated, then crud.create_recipe starts.
create_recipe_begin(t, in) ==
    /\ Idle(t)
    /\ Len(recipes) < in.max_recipes
    /\ \E body \in in.bodies :
          LET req == [NoReq EXCEPT !.kind = "create", !.title = body.title,
                                   !.cooking_time = body.cooking_time,
                                   !.names = body.names]
          IN task' = [task EXCEPT ![t] =
                IF ~RecipeCreateValid(req)
                THEN Finish(Begin(in, req, "run"), HTTP_422_UNPROCESSABLE, <<>>)
                ELSE NextName(Begin(in, req, "run"))]
    /\ UNCHANGED <<recipes, ingredients, links, writer, fetched>>

\* The lookup of one ingredient name; an existing row is appended to the list.
create_recipe_lookup(t) ==
    /\ task[t].pc = "c_lookup"
    /\ LET existing == FindIngredient(t, task[t].req.names[task[t].i])
       IN task' = [task EXCEPT ![t] =
             IF existing # None
             THEN NextName([@ EXCEPT !.ings = Append(@, existing)])
             ELSE [@ EXCEPT !.pc = "c_flush"]]
    /\ UNCHANGED <<recipes, ingredients, links, writer, fetched>>

\* A table without the UNIQUE index.
UniqueViolation_NoIndex(t, name) == FALSE

\* name = Column(String(50), unique=True): the INSERT of a name the session sees
\* in the table is refused.  (SQLite does not enforce the length of a String.)
UniqueViolation(t, name) == name \in Range(Visible(t))

\* db.add(new_ingredient); db.flush(): the INSERT takes the write lock; the UNIQUE
\* index on ingredients.name rejects a name that is already there.
create_recipe_flush(t) ==
    /\ task[t].pc = "c_flush"
    /\ writer \in {None, t}
    /\ LET name == task[t].req.names[task[t].i]
       IN IF UniqueViolation(t, name)
          THEN /\ task' = [task EXCEPT ![t] =
                     Finish([@ EXCEPT !.hit = TRUE], HTTP_500_INTERNAL_SERVER_ERROR,
                            [detail |-> CreateErrorDetail(IntegrityError(name))])]
               /\ ingredients' = CloseSession(t)
               /\ writer' = Unlock(t)
               /\ UNCHANGED <<recipes, links, fetched>>
          ELSE /\ task' = [task EXCEPT ![t] =
                     NextName([@ EXCEPT !.pend = Append(@, name),
                                        !.ings = Append(@, Len(Visible(t)) + 1)])]
               /\ writer' = t
               /\ UNCHANGED <<recipes, ingredients, links, fetched>>

\* views = Column(Integer, default=0)
DefaultViews == 0

\* One association row per element of the list, repeated elements included.
AssociationRows_PerElement(rid, ings) == [k \in DOMAIN ings |-> <<rid, ings[k]>>]

\* The recipe_ingredient rows the flush of Recipe(ingredients=ings) inserts.  ings
\* may hold an ingredient twice (the same name given twice resolves to the same
\* row).  The relationship is bidirectional (back_populates): each append to
\* recipe.ingredients is recorded on the unloaded Ingredient.recipes as a pending
\* member, once per recipe, and the unit of work writes the rows from that side
\* first and skips the pairs it has written: one row per distinct ingredient.
\* The table has no key of its own that would refuse a repeated row.
AssociationRows(rid, ings) ==
    LET ids == Dedup(ings) IN [k \in DOMAIN ids |-> <<rid, ids[k]>>]

\* db.add(db_recipe); db.commit(): the recipe row, its association rows and the
\* flushed ingredients become visible together; the write lock is released.
create_recipe_commit(t) ==
    /\ task[t].pc = "c_commit"
    /\ writer \in {None, t}
    /\ LET rid == Len(recipes) + 1
       IN /\ recipes' = Append(recipes, [title |-> task[t].req.title,
                                         cooking_time |-> task[t].req.cooking_time,
                                         views |-> DefaultViews])
          /\ ingredients' = Visible(t)
          /\ links' = links \o AssociationRows(rid, task[t].ings)
          /\ task' = [task EXCEPT ![t].pc = "c_refresh", ![t].obj = rid,
                                  ![t].pend = <<>>]
    /\ writer' = None
    /\ UNCHANGED fetched

\* db.refresh(db_recipe), db.refresh(db_recipe, ['ingredients']) and the 201.
create_recipe_refresh(t) ==
    /\ task[t].pc = "c_refresh"
    /\ task' = [task EXCEPT ![t] = Finish(@, HTTP_201_CREATED, RecipeDetail(task[t].obj))]
    /\ UNCHANGED <<recipes, ingredients, links, writer, fetched>>

\* A store call of create_recipe raises: the database is locked by another
\* writer for longer than the driver waits, or the store fails with an I/O error.
StoreError(t) ==
    /\ task[t].pc \in {"c_lookup", "c_flush", "c_commit"}
    /\ Raise(t, IF task[t].pc # "c_lookup" /\ writer \notin {None, t}
                THEN OperationalError("database is locked")
                ELSE OperationalError("disk I/O error"))

\* ---------------------------------------------------------- specifications
SeqTasks == {1}

ConcTasks == {1, 2}

InitWith(T, in) ==
    /\ recipes = <<>>
    /\ ingredients = <<>>
    /\ links = <<>>
    /\ writer = None
    /\ task = [t \in T |-> Fresh]
    /\ fetched = [id \in 1..(in.max_recipes + Cardinality(T)) |-> 0]

\* Requests one after the other: one task.
Init == InitWith(SeqTasks, SeqInputs)

Next ==
    \E t \in SeqTasks :
    \/ get_recipes(t, SeqInputs)
    \/ get_ingredients(t, SeqInputs)
    \/ get_recipe_select(t, SeqInputs)
    \/ get_recipe_commit(t)
    \/ get_recipe_refresh(t)
    \/ create_recipe_begin(t, SeqInputs)
    \/ create_recipe_lookup(t)
    \/ create_recipe_flush(t)
    \/ create_recipe_commit(t)
    \/ create_recipe_refresh(t)
    \/ StoreError(t)

Spec == Init /\ [][Next]_vars

\* Requests one after the other, drawn for the listing: more recipes, more
\* cooking times, every skip and limit.
InitPaging == InitWith(SeqTasks, PagingInputs)

NextPaging ==
    \E t \in SeqTasks :
    \/ get_recipes(t, PagingInputs)
    \/ get_ingredients(t, PagingInputs)
    \/ get_recipe_select(t, PagingInputs)
    \/ get_recipe_commit(t)
    \/ get_recipe_refresh(t)
    \/ create_recipe_begin(t, PagingInputs)
    \/ create_recipe_lookup(t)
    \/ create_recipe_flush(t)
    \/ create_recipe_commit(t)
    \/ create_recipe_refresh(t)
    \/ StoreError(t)

SpecPaging == InitPaging /\ [][NextPaging]_vars

\* Two requests in flight.
InitConc == InitWith(ConcTasks, ConcInputs)

NextConc ==
    \E t \in ConcTasks :
    \/ get_recipes(t, ConcInputs)
    \/ get_ingredients(t, ConcInputs)
    \/ get_recipe_select(t, ConcInputs)
    \/ get_recipe_commit(t)
    \/ get_recipe_refresh(t)
    \/ create_recipe_begin(t, ConcInputs)
    \/ create_recipe_lookup(t)
    \/ create_recipe_flush(t)
    \/ create_recipe_commit(t)
    \/ create_recipe_refresh(t)
    \/ StoreError(t)

SpecConc == InitConc /\ [][NextConc]_vars

\* ------------------------------------------------------------------ claims
Done(t, kind) == task[t].pc = "done" /\ task[t].req.kind = kind

\* Row r comes before row q in the listing's contract: more views, or as many
\* views and a shorter cooking time.
Precedes(r, q) ==
    r.views > q.views \/ (r.views = q.views /\ r.cooking_time < q.cooking_time)

\* C1: for skip >= 0 and limit >= 0, get_recipes answers the rows at positions
\* skip+1 .. skip+limit of all recipes by views descending, then cooking_time
\* ascending: it has min(limit, max(0, n - skip)) distinct stored rows, and the
\* k-th of them has at most skip+k-1 recipes strictly before it and at least
\* skip+k recipes not after it; the store is what the request found.
C1_ListingIsThePage ==
    \A t \in DOMAIN task :
        (Done(t, "list") /\ task[t].req.skip >= 0 /\ task[t].req.limit >= 0) =>
            LET rows == task[t].resp.body
                skip == task[t].req.skip
                n == Len(recipes)
            IN /\ task[t].resp.status = 200
               /\ Len(rows) = Min(task[t].req.limit, Max(0, n - skip))
               /\ \A k \in DOMAIN rows :
                     /\ rows[k].id \in 1..n
                     /\ rows[k].views = recipes[rows[k].id].views
                     /\ rows[k].cooking_time = recipes[rows[k].id].cooking_time
                     /\ rows[k].title = recipes[rows[k].id].title
                     /\ \A j \in DOMAIN rows : j # k => rows[j].id # rows[k].id
                     /\ Cardinality({i \in 1..n : Precedes(recipes[i], rows[k])})
                           <= skip + k - 1
                     /\ Cardinality({i \in 1..n : ~Precedes(rows[k], recipes[i])})
                           >= skip + k
               /\ Store = task[t].snap

\* Three recipes with (views, cooking_time) (1,2), (1,1) and (2,1), listed with
\* skip = 1 and limit = 1: the answer is the one row (1,1).
C1_Witness ==
    \E t \in DOMAIN task :
        /\ Done(t, "list") /\ task[t].req.skip = 1 /\ task[t].req.limit = 1
        /\ Len(recipes) = 3
        /\ {<<recipes[i].views, recipes[i].cooking_time>> : i \in 1..3}
              = {<<1, 2>>, <<1, 1>>, <<2, 1>>}
        /\ Len(task[t].resp.body) = 1
        /\ task[t].resp.body[1].views = 1 /\ task[t].resp.body[1].cooking_time = 1

Refreshing(id) ==
    Cardinality({u \in DOMAIN task : task[u].pc = "g_refresh" /\ task[u].req.id = id})

\* C2: with requests one after the other, a recipe's views is the number of
\* successful get_recipe calls on its id (0 when created); a successful
\* get_recipe(id) leaves views of id one above what it found and returns that
\* value; every other request, a get_recipe of another or of a missing id
\* included, leaves every recipe's views as it found it.
C2_ViewsCountFetches ==
    /\ \A id \in DOMAIN recipes : recipes[id].views = fetched[id] + Refreshing(id)
    /\ \A t \in DOMAIN task :
          task[t].pc = "done" =>
             /\ \A id \in DOMAIN task[t].snap[1] :
                   recipes[id].views = task[t].snap[1][id].views +
                      (IF task[t].req.kind = "get" /\ task[t].req.id = id THEN 1 ELSE 0)
             /\ (task[t].req.kind = "get" /\ task[t].req.id \in DOMAIN recipes) =>
                   /\ task[t].resp.status = 200
                   /\ task[t].resp.body.views = recipes[task[t].req.id].views

\* Two fetches of recipe 1, one after the other: views 2, returned by the second.
C2_Witness ==
    \E t \in DOMAIN task :
        /\ Done(t, "get") /\ task[t].req.id = 1
        /\ fetched[1] = 2 /\ recipes[1].views = 2
        /\ task[t].snap[1][1].views = 1
        /\ task[t].resp.body.views = 2

Created(t) == Done(t, "create") /\ task[t].resp.status = 201

NoRepeats(seq) == \A i, j \in DOMAIN seq : i # j => seq[i] # seq[j]

\* C3: with create_recipe calls one after the other no two Ingredient rows share
\* a name, no insert is ever refused by the UNIQUE index (an existing name is
\* looked up, never inserted), and a successful call leaves the table it found
\* followed by one row for each name that was not in it.
C3_IngredientNamesUnique ==
    /\ NoRepeats(ingredients)
    /\ \A t \in DOMAIN task :
          /\ NoRepeats(Visible(t))
          /\ ~task[t].hit
          /\ Created(t) =>
                ingredients = task[t].snap[2] \o
                   Dedup(SelectSeq(task[t].req.names,
                                   LAMBDA n : n \notin Range(task[t].snap[2])))

\* Recipe 1 with ["egg"], then recipe 2 with ["egg", "milk"]: one egg row, used
\* by both recipes, and one new milk row.
C3_Witness ==
    \E t \in DOMAIN task :
        /\ Created(t) /\ task[t].req.names = <<"egg", "milk">>
        /\ task[t].snap[2] = <<"egg">>
        /\ ingredients = <<"egg", "milk">>
        /\ links = <<<<1, 1>>, <<2, 1>>, <<2, 2>>>>

LinkedTo(rid) == {k \in DOMAIN links : links[k][1] = rid}

C5_MissingIdIs404 ==
    \A t \in DOMAIN task :
        (Done(t, "get") /\ task[t].req.id \notin DOMAIN task[t].snap[1]) =>
            /\ task[t].resp.status = 404
            /\ Store = task[t].snap
            /\ fetched[task[t].req.id] = 0

\* A missing id asked for while a recipe that was viewed is stored.
C5_Witness ==
    \E t \in DOMAIN task :
        /\ Done(t, "get") /\ task[t].req.id = Len(recipes) + 1
        /\ Len(recipes) >= 1 /\ recipes[1].views >= 1
        /\ task[t].resp.status = 404

\* C7: every stored ingredient name has at most 50 characters, every stored
\* title at most 100, every stored cooking_time is at least 1.
C7_StoredFieldsWithinLimits ==
    /\ \A i \in DOMAIN ingredients : Len(ingredients[i]) <= MaxNameLen
    /\ \A id \in DOMAIN recipes :
          Len(recipes[id].title) <= MaxTitleLen /\ recipes[id].cooking_time >= MinCookingTime

\* C10: a create_recipe that raises leaves the store as the request found it and
\* holds no lock; until its commit the request changes nothing in the store.
C10_FailedCreateChangesNothing ==
    \A t \in DOMAIN task :
        /\ task[t].pc \in {"c_lookup", "c_flush", "c_commit"} => Store = task[t].snap
        /\ (Done(t, "create") /\ task[t].resp.status = 500) =>
              Store = task[t].snap /\ writer = None

\* A create_recipe that failed after it had flushed a new ingredient: the list it
\* was building holds the id of a row that is not in the table.
C10_Witness ==
    \E t \in DOMAIN task :
        /\ Done(t, "create") /\ task[t].resp.status = 500
        /\ \E k \in DOMAIN task[t].ings : task[t].ings[k] > Len(ingredients)

\* C6: whatever exception create_recipe raises, POST /recipes answers 500 with
\* the same body: two failed requests never differ in what they return.
C6_GenericErrorBody ==
    \A t, u \in DOMAIN task :
        (/\ Done(t, "create") /\ task[t].resp.status = 500
         /\ Done(u, "create") /\ task[u].resp.status = 500) =>
            task[t].resp.body = task[u].resp.body

\* C8: under any interleaving a recipe's views is at most the number of
\* get_recipe calls on it that passed their commit (those that returned and those
\* about to).
C8_ViewsAtMostFetches ==
    \A id \in DOMAIN recipes : recipes[id].views <= fetched[id] + Refreshing(id)

\* Two fetches of recipe 1 that both read views = 0 and both returned 200:
\* views is 1.
C8_Witness ==
    /\ \A t \in DOMAIN task :
          /\ Done(t, "get") /\ task[t].req.id = 1 /\ task[t].obj = 0
          /\ task[t].resp.status = 200
    /\ fetched[1] = 2
    /\ recipes[1].views = 1

\* C9: under any interleaving no two Ingredient rows share a name, in the table
\* and in what any session sees of it; a create_recipe whose insert the UNIQUE
\* index refused is not retried: it has ended in a 500 that carries the
\* IntegrityError.
C9_RaceLeavesOneRow ==
    /\ NoRepeats(ingredients)
    /\ \A t \in DOMAIN task :
          /\ NoRepeats(Visible(t))
          /\ task[t].hit =>
                /\ Done(t, "create")
                /\ task[t].resp.status = 500
                /\ task[t].resp.body.detail[2].exc = "IntegrityError"

\* Two create_recipe calls naming the same new ingredient: both looked it up and
\* found nothing, one inserted it and committed, the other's insert was refused.
C9_Witness ==
    \E t, u \in DOMAIN task :
        /\ t # u
        /\ Created(t)
        /\ task[u].hit /\ Done(u, "create") /\ task[u].resp.status = 500
        /\ task[u].resp.body.detail[2].params \in Range(task[t].req.names)
        /\ task[u].ings = <<>>
        /\ Cardinality({i \in DOMAIN ingredients :
                           ingredients[i] = task[u].resp.body.detail[2].params}) = 1

====
